---- MODULE Spec2Model ----
(***************************************************************************)
(* packet-ts: PacketWriter (src/src/PacketWriter.ts) and PacketReader      *)
(* (src/unnamed/part_000), a little-endian binary packet codec.            *)
(*                                                                         *)
(* Representation of JavaScript values:                                    *)
(*   - a byte, a 16-bit number, an offset or a length is an integer;       *)
(*   - a 32/64-bit number or a BigInt is a Num: four limbs <<l0,l1,l2,l3>> *)
(*     of base 65536, least significant first, l0..l2 in 0..65535 and l3   *)
(*     any integer (it carries the sign), so that every integer has one    *)
(*     representation and no limb leaves the range of a 32-bit integer;    *)
(*   - a string is its sequence of UTF-16 code units;                      *)
(*   - a Uint8Array is a view [buffer, byteOffset, length] on the bytes of *)
(*     an ArrayBuffer;                                                     *)
(*   - a float is its IEEE-754 bit pattern, the bytes least significant    *)
(*     first.                                                              *)
(***************************************************************************)
EXTENDS Integers, Sequences, FiniteSets, TLC

\* ------------------------------------------------------------------ bounds

\* Writes issued on one PacketWriter in the writer specification.
MaxWrites == 2
\* Fields written on one PacketWriter in the round-trip specification.
MaxFields == 3
\* Length of the longest byte array handed to a PacketReader.
MaxData == 3
\* Length of the long raw span that takes the writer's buffer past what the
\* 16-bit size header can count.
BigSpanLen == 65534
\* Writes issued on one PacketWriter in the framing specification.
MaxFrameWrites == 2
\* The longest buffer the framing specification lets the writer grow.
MaxBuffer == 65540
\* How far below 0 the model follows the reader's cursor.
MaxUnder == 2
\* Fields written on one PacketWriter in the truncated-packet specification.
MaxCutFields == 2
\* Fields written on one PacketWriter in the mixed-order specification.
MaxMixedFields == 1
\* Fields written on one PacketWriter in the partial-read specification.
MaxSkipFields == 2
\* Unsigned 32-bit writes on one PacketWriter in the masking specification.
MaxMaskWrites == 2

\* ------------------------------------------------------- JavaScript numbers

\* The value `undefined` of an out-of-range typed-array index.
Undefined == -1

Num(l0, l1, l2, l3) == <<l0, l1, l2, l3>>

\* A small non-negative integer as a Num.
NumOf(n) == Num(n % 65536, n \div 65536, 0, 0)

\* x >> 8 on a two's-complement integer of any size: floor division by 256.
Sar8(v) ==
    Num((v[1] \div 256) + (v[2] % 256) * 256,
        (v[2] \div 256) + (v[3] % 256) * 256,
        (v[3] \div 256) + (v[4] % 256) * 256,
        v[4] \div 256)

\* x >> bits, bits a multiple of 8.
RECURSIVE Sar(_, _)
Sar(v, bits) == IF bits = 0 THEN v ELSE Sar(Sar8(v), bits - 8)

\* x & 0xFF: the low 8 bits of a two's-complement integer.
And255(v) == v[1] % 256

\* ToInt32: the value modulo 2^32, read as a signed 32-bit integer.
ToInt32(v) ==
    IF v[2] >= 32768 THEN Num(v[1], v[2], 65535, -1) ELSE Num(v[1], v[2], 0, 0)

\* x >>> 0 (ToUint32): the value modulo 2^32, in 0..2^32-1.
ToUint32(v) == Num(v[1], v[2], 0, 0)

\* ToBigInt64 (BigInt.asIntN(64, x)): modulo 2^64, read as signed.
ToBigInt64(v) ==
    LET top == v[4] % 65536
    IN  Num(v[1], v[2], v[3], IF top >= 32768 THEN top - 65536 ELSE top)

\* An operand of a bitwise operator: undefined converts to 0.
Int32Of(b) == IF b = Undefined THEN 0 ELSE b

\* b0 | (b1 << 8) | (b2 << 16) | (b3 << 24) on 32-bit integers: the bytes
\* occupy disjoint bits, and bit 31 (the top bit of b3) is the sign.
Or32(b0, b1, b2, b3) ==
    ToInt32(Num(Int32Of(b0) + 256 * Int32Of(b1),
                Int32Of(b2) + 256 * Int32Of(b3), 0, 0))

\* ------------------------------------------------------------------- UTF-8

IsHigh(u) == u >= 55296 /\ u <= 56319
IsLow(u)  == u >= 56320 /\ u <= 57343

\* The code points of a string (USVString conversion): a surrogate pair is
\* one code point, a lone surrogate becomes U+FFFD.
RECURSIVE CodePoints(_)
CodePoints(s) ==
    IF s = <<>> THEN <<>>
    ELSE IF IsHigh(s[1]) /\ Len(s) >= 2 /\ IsLow(s[2])
         THEN <<65536 + (s[1] - 55296) * 1024 + (s[2] - 56320)>>
              \o CodePoints(SubSeq(s, 3, Len(s)))
    ELSE IF IsHigh(s[1]) \/ IsLow(s[1])
         THEN <<65533>> \o CodePoints(Tail(s))
    ELSE <<s[1]>> \o CodePoints(Tail(s))

\* The UTF-8 bytes of one code point.
Utf8Of(c) ==
    IF c < 128 THEN <<c>>
    ELSE IF c < 2048 THEN <<192 + (c \div 64), 128 + (c % 64)>>
    ELSE IF c < 65536
         THEN <<224 + (c \div 4096), 128 + ((c \div 64) % 64), 128 + (c % 64)>>
    ELSE <<240 + (c \div 262144), 128 + ((c \div 4096) % 64),
           128 + ((c \div 64) % 64), 128 + (c % 64)>>

RECURSIVE Utf8OfAll(_)
Utf8OfAll(cs) ==
    IF cs = <<>> THEN <<>> ELSE Utf8Of(cs[1]) \o Utf8OfAll(Tail(cs))

\* new TextEncoder().encode(value)
TextEncode(s) == Utf8OfAll(CodePoints(s))

\* The UTF-8 decoder of the Encoding Standard, in replacement mode: the code
\* points of bytes bs from position i on, given the decoder's state (code
\* point cp, bytes still needed, and the bounds lo..hi of the next byte).
RECURSIVE Utf8Decode(_, _, _, _, _, _)
Utf8Decode(bs, i, cp, needed, lo, hi) ==
    IF i > Len(bs) THEN (IF needed # 0 THEN <<65533>> ELSE <<>>)
    ELSE LET b == bs[i] IN
      IF needed = 0 THEN
        IF b <= 127 THEN <<b>> \o Utf8Decode(bs, i + 1, 0, 0, 128, 191)
        ELSE IF b >= 194 /\ b <= 223
             THEN Utf8Decode(bs, i + 1, b % 32, 1, 128, 191)
        ELSE IF b >= 224 /\ b <= 239
             THEN Utf8Decode(bs, i + 1, b % 16, 2,
                             IF b = 224 THEN 160 ELSE 128,
                             IF b = 237 THEN 159 ELSE 191)
        ELSE IF b >= 240 /\ b <= 244
             THEN Utf8Decode(bs, i + 1, b % 8, 3,
                             IF b = 240 THEN 144 ELSE 128,
                             IF b = 244 THEN 143 ELSE 191)
        ELSE <<65533>> \o Utf8Decode(bs, i + 1, 0, 0, 128, 191)
      ELSE IF b < lo \/ b > hi
           THEN <<65533>> \o Utf8Decode(bs, i, 0, 0, 128, 191)
      ELSE IF needed = 1
           THEN <<cp * 64 + (b % 64)>> \o Utf8Decode(bs, i + 1, 0, 0, 128, 191)
      ELSE Utf8Decode(bs, i + 1, cp * 64 + (b % 64), needed - 1, 128, 191)

\* The UTF-16 code units of a sequence of code points.
RECURSIVE Utf16Of(_)
Utf16Of(cs) ==
    IF cs = <<>> THEN <<>>
    ELSE IF cs[1] >= 65536
         THEN <<55296 + ((cs[1] - 65536) \div 1024),
                56320 + ((cs[1] - 65536) % 1024)>> \o Utf16Of(Tail(cs))
    ELSE <<cs[1]>> \o Utf16Of(Tail(cs))

\* new TextDecoder('utf-8').decode(bytes): malformed input is replaced by
\* U+FFFD, and with the default ignoreBOM = false a leading byte order mark
\* (EF BB BF, the code point U+FEFF) is dropped from the result.
TextDecode(bs) ==
    LET cs == Utf8Decode(bs, 1, 0, 0, 128, 191)
    IN  Utf16Of(IF cs # <<>> /\ cs[1] = 65279 THEN Tail(cs) ELSE cs)

\* ------------------------------------------------------------ PacketWriter

\* Mutant: the bytes go in front of the buffer.
Push_Front(buf, bytes) == bytes \o buf

\* Array.prototype.push of the elements of bytes.
Push(buf, bytes) == buf \o bytes

\* Byte k of a 32-bit value: (value >> 8k) & 0xFF, the operands taken ToInt32.
Byte32(value, k) == And255(Sar(ToInt32(value), 8 * k))

writeUInt8(buf, value) == Push(buf, <<Byte32(value, 0)>>)

writeUInt16(buf, value) == Push(buf, <<Byte32(value, 0), Byte32(value, 1)>>)

\* Mutant: the bytes most significant first.
writeUInt32_BigEndian(buf, value) ==
    Push(buf, <<Byte32(value, 3), Byte32(value, 2),
                Byte32(value, 1), Byte32(value, 0)>>)

writeUInt32(buf, value) ==
    Push(buf, <<Byte32(value, 0), Byte32(value, 1),
                Byte32(value, 2), Byte32(value, 3)>>)

\* Number((bigValue >> BigInt(i * 8)) & BigInt(0xFF)) for i = 0..7.
writeUInt64(buf, value) ==
    Push(buf, [i \in 1..8 |-> And255(Sar(value, 8 * (i - 1)))])

\* DataView.setInt32(0, value, true)
writeInt32(buf, value) ==
    Push(buf, [i \in 1..4 |-> And255(Sar(ToInt32(value), 8 * (i - 1)))])

\* DataView.setBigInt64(0, bigValue, true)
writeInt64(buf, value) ==
    Push(buf, [i \in 1..8 |-> And255(Sar(ToBigInt64(value), 8 * (i - 1)))])

\* DataView.setFloat32 / setFloat64: the bytes of the value's bit pattern.
writeFloat32(buf, bits) == Push(buf, bits)

writeFloat64(buf, bits) == Push(buf, bits)

writeBool(buf, value) == Push(buf, <<IF value THEN 1 ELSE 0>>)

\* Mutant: a 1-byte length prefix.
writeString_Prefix8(buf, value) ==
    LET utf8Bytes == TextEncode(value)
    IN  Push(writeUInt8(buf, NumOf(Len(utf8Bytes))), utf8Bytes)

\* Mutant: an empty string is written as nothing at all.
writeString_SkipEmpty(buf, value) ==
    LET utf8Bytes == TextEncode(value)
    IN  IF utf8Bytes = <<>> THEN buf
        ELSE Push(writeUInt16(buf, NumOf(Len(utf8Bytes))), utf8Bytes)

writeString(buf, value) ==
    LET utf8Bytes == TextEncode(value)
    IN  Push(writeUInt16(buf, NumOf(Len(utf8Bytes))), utf8Bytes)

writeBytes(buf, bytes) == Push(buf, bytes)

\* The buffer a constructor leaves: the packet ID, written first.
NewWriterBuffer(id) == writeUInt16(<<>>, id)

\* Mutant: the size header counts its own 2 bytes.
Header_CountsItself(payloadLength) ==
    <<(payloadLength + 2) % 256, ((payloadLength + 2) \div 256) % 256>>

\* The 2-byte size header of getBytes().
Header(payloadLength) == <<payloadLength % 256, (payloadLength \div 256) % 256>>

\* Mutant: a packet never carries more bytes than its header can count.
getBytes_Capped(buf) ==
    Header(Len(buf)) \o SubSeq(buf, 1, IF Len(buf) > 65535 THEN 65535 ELSE Len(buf))

getBytes(buf) == Header(Len(buf)) \o buf

getData(buf) == buf

\* ------------------------------------------------------------ PacketReader

\* A Uint8Array: length bytes of an ArrayBuffer, from byteOffset on.
View(buffer, byteOffset, length) ==
    [buffer |-> buffer, byteOffset |-> byteOffset, length |-> length]

\* new Uint8Array(bytes), and Uint8Array.prototype.slice: a fresh buffer.
FreshView(bytes) == View(bytes, 0, Len(bytes))

\* The bytes a view shows.
BytesOf(d) == [i \in 1..d.length |-> d.buffer[d.byteOffset + i]]

\* this.data[i]: undefined outside 0..length-1.
At(d, i) ==
    IF i >= 0 /\ i < d.length THEN d.buffer[d.byteOffset + i + 1] ELSE Undefined

\* A position argument of slice: negative counts from the end, clamped.
Rel(d, x) ==
    IF x < 0 THEN (IF d.length + x < 0 THEN 0 ELSE d.length + x)
    ELSE (IF x > d.length THEN d.length ELSE x)

\* this.data.slice(begin, end)
Slice(d, begin, end) ==
    LET from == Rel(d, begin)
        to   == Rel(d, end)
    IN  [i \in 1..(IF to > from THEN to - from ELSE 0) |-> At(d, from + i - 1)]

\* new DataView(this.data.buffer, start, width): a RangeError unless
\* 0 <= start and start + width <= buffer.byteLength.
ViewOk(d, start, width) == start >= 0 /\ start + width <= Len(d.buffer)

ViewBytes(d, start, width) == [i \in 1..width |-> d.buffer[start + i]]

\* What a call leaves: the cursor, and the value returned or the error thrown.
Returned(off, kind, val) == [offset |-> off, kind |-> kind, val |-> val, err |-> ""]

Thrown(off, msg) == [offset |-> off, kind |-> "none", val |-> <<>>, err |-> msg]

NotEnough(type) == "PacketReader: Not enough data to read " \o type

\* A value read from the array: a number, or undefined.
Element(off, b) ==
    IF b = Undefined THEN Returned(off, "undefined", <<>>)
    ELSE Returned(off, "number", NumOf(b))

readUInt8(d, off) ==
    IF off + 1 > d.length THEN Thrown(off, NotEnough("UInt8"))
    ELSE Element(off + 1, At(d, off))

readUInt16(d, off) ==
    IF off + 2 > d.length THEN Thrown(off, NotEnough("UInt16"))
    ELSE Returned(off + 2, "number",
                  NumOf(Int32Of(At(d, off)) + 256 * Int32Of(At(d, off + 1))))

\* Mutant: the value of the bitwise OR as it is, a signed 32-bit integer.
readUInt32_Signed(d, off) ==
    IF off + 4 > d.length THEN Thrown(off, NotEnough("UInt32"))
    ELSE Returned(off + 4, "number",
                  Or32(At(d, off), At(d, off + 1), At(d, off + 2), At(d, off + 3)))

readUInt32(d, off) ==
    IF off + 4 > d.length THEN Thrown(off, NotEnough("UInt32"))
    ELSE Returned(off + 4, "number",
                  ToUint32(Or32(At(d, off), At(d, off + 1),
                                At(d, off + 2), At(d, off + 3))))

\* value |= BigInt(this.data[offset + i]) << BigInt(i * 8): BigInt(undefined)
\* throws a TypeError.
readUInt64(d, off) ==
    IF off + 8 > d.length THEN Thrown(off, NotEnough("UInt64"))
    ELSE IF \E i \in 0..7 : At(d, off + i) = Undefined THEN Thrown(off, "TypeError")
    ELSE Returned(off + 8, "bigint",
                  Num(At(d, off) + 256 * At(d, off + 1),
                      At(d, off + 2) + 256 * At(d, off + 3),
                      At(d, off + 4) + 256 * At(d, off + 5),
                      At(d, off + 6) + 256 * At(d, off + 7)))

\* Mutant: the DataView starts at the cursor, whatever the array's byteOffset.
readInt32_FromBuffer(d, off) ==
    IF off + 4 > d.length THEN Thrown(off, NotEnough("Int32"))
    ELSE IF ~ViewOk(d, off, 4) THEN Thrown(off, "RangeError")
    ELSE LET b == ViewBytes(d, off, 4)
         IN  Returned(off + 4, "number", Or32(b[1], b[2], b[3], b[4]))

readInt32(d, off) ==
    IF off + 4 > d.length THEN Thrown(off, NotEnough("Int32"))
    ELSE IF ~ViewOk(d, d.byteOffset + off, 4) THEN Thrown(off, "RangeError")
    ELSE LET b == ViewBytes(d, d.byteOffset + off, 4)
         IN  Returned(off + 4, "number", Or32(b[1], b[2], b[3], b[4]))

readInt64(d, off) ==
    IF off + 8 > d.length THEN Thrown(off, NotEnough("Int64"))
    ELSE IF ~ViewOk(d, d.byteOffset + off, 8) THEN Thrown(off, "RangeError")
    ELSE LET b == ViewBytes(d, d.byteOffset + off, 8)
         IN  Returned(off + 8, "bigint",
                      ToBigInt64(Num(b[1] + 256 * b[2], b[3] + 256 * b[4],
                                     b[5] + 256 * b[6], b[7] + 256 * b[8])))

readFloat32(d, off) ==
    IF off + 4 > d.length THEN Thrown(off, NotEnough("Float32"))
    ELSE IF ~ViewOk(d, d.byteOffset + off, 4) THEN Thrown(off, "RangeError")
    ELSE Returned(off + 4, "float", ViewBytes(d, d.byteOffset + off, 4))

readFloat64(d, off) ==
    IF off + 8 > d.length THEN Thrown(off, NotEnough("Float64"))
    ELSE IF ~ViewOk(d, d.byteOffset + off, 8) THEN Thrown(off, "RangeError")
    ELSE Returned(off + 8, "float", ViewBytes(d, d.byteOffset + off, 8))

\* this.readUInt8() !== 0 (undefined !== 0 is true)
readBool(d, off) ==
    LET r == readUInt8(d, off)
    IN  IF r.err # "" THEN r
        ELSE Returned(r.offset, "boolean",
                      <<IF r.kind = "number" /\ r.val = NumOf(0) THEN 0 ELSE 1>>)

\* The length prefix is read by readUInt16, which moves the cursor, before
\* the body is checked.
readString(d, off) ==
    LET r      == readUInt16(d, off)
        length == r.val[1] + 65536 * r.val[2]
    IN  IF r.err # "" THEN r
        ELSE IF r.offset + length > d.length
             THEN Thrown(r.offset, NotEnough("string"))
        ELSE Returned(r.offset + length, "string",
                      TextDecode(Slice(d, r.offset, r.offset + length)))

readBytes(d, off, length) ==
    IF off + length > d.length THEN Thrown(off, NotEnough("bytes"))
    ELSE Returned(off + length, "bytes", Slice(d, off, off + length))

isComplete(d, off) == off = d.length

\* Mutant: the bytes of the whole array.
remaining_Total(d, off) == d.length

remaining(d, off) == d.length - off

\* Mutant: the cursor stays.
reset_Keep(off) == off

\* The cursor reset() leaves.
reset(off) == 0

\* Mutant: the end of the data is refused.
setOffset_Strict(d, off, n) ==
    IF n < 0 \/ n >= d.length THEN Thrown(off, "PacketReader: Invalid offset")
    ELSE Returned(n, "none", <<>>)

setOffset(d, off, n) ==
    IF n < 0 \/ n > d.length THEN Thrown(off, "PacketReader: Invalid offset")
    ELSE Returned(n, "none", <<>>)

\* -------------------------------------------------------------------- state

VARIABLES
    stage,      \* "writer": the caller holds a PacketWriter; "reader": a PacketReader
    caller,     \* "any": calls in any order; "mirror": reads mirror the writes
    buffer,     \* PacketWriter.buffer
    packetId,   \* PacketWriter.packetId
    written,    \* the caller's writes so far, [kind, val] each
    out,        \* the writer call made last, and what it returned
    outAt,      \* the writes made before the first output call, -1 before it
    data,       \* PacketReader.data
    offset,     \* PacketReader.offset
    last,       \* the reader call made last, its argument and its outcome
    afterReset, \* whether reset() has been called on the reader
    fresh,      \* the cursor of a PacketReader constructed over the same data
                \* when reset() was last called, and given the same calls since
    freshLast,  \* the outcome of that reader's last call
    nread       \* the reads issued by a mirroring caller

writerVars == <<buffer, packetId, written, out, outAt>>
readerVars == <<data, offset, last, afterReset, fresh, freshLast, nread>>
vars == <<stage, caller, buffer, packetId, written, out, outAt,
          data, offset, last, afterReset, fresh, freshLast, nread>>

\* ------------------------------------------------------------------ samples

Str_Hello == <<72, 101, 108, 108, 111>>
Str_test  == <<116, 101, 115, 116>>
\* U+FEFF followed by "A": a string that begins with a byte order mark.
Str_BomA  == <<65279, 65>>
\* "é€" followed by U+1F600 as a surrogate pair: 2, 3 and 4 bytes.
Str_Multi == <<233, 8364, 55357, 56832>>

U32Max == Num(65535, 65535, 0, 0)
U64Max == Num(65535, 65535, 65535, 65535)
I32Min == Num(0, 32768, 65535, -1)
I64Min == Num(0, 0, 0, -32768)
MinusOne == Num(65535, 65535, 65535, -1)

\* Values in each type's domain, written and read back.
PacketIds == {NumOf(10001)}
U8s   == {NumOf(255)}
U16s  == {NumOf(65535)}
U32s  == {NumOf(12345), U32Max}
U64s  == {U64Max}
I32s  == {I32Min}
I64s  == {MinusOne}
Bools == {TRUE}
WideBools == {TRUE, FALSE}
Strs  == {Str_Hello, Str_BomA, Str_Multi}
WideStrs == {<<>>, Str_Hello, Str_Multi}
Spans == {<<1, 255>>}
WideSpans == Spans \cup {<<>>}
F32s  == {<<0, 0, 128, 63>>}
F64s  == {<<0, 0, 0, 0, 0, 0, 240, 191>>}

\* More values, and numbers outside the type's domain.
WideIds == PacketIds \cup {NumOf(65537)}
WideU8s == U8s \cup {NumOf(513)}
WideU16s == {MinusOne}
WideU32s == U32s \cup {MinusOne, Num(5, 0, 1, 0)}
WideU64s == {MinusOne}
WideI32s == {U32Max}
WideI64s == {I64Min}

\* Integers given to writeUInt32: in its domain, negative, 2^31, above 2^32.
MaskU32s == WideU32s \cup {I32Min, Num(0, 32768, 0, 0), Num(0, 0, 0, 1)}

\* The long raw span.
BigSpan == [i \in 1..BigSpanLen |-> 0]

\* Byte arrays handed to a reader: every array of up to MaxData bytes among
\* 0, 2 and 255, and three longer ones for the 8-byte reads.
DataSamples ==
    (UNION {[1..n -> {0, 2, 255}] : n \in 0..MaxData})
    \cup {<<255, 255, 255, 255, 255, 255, 255, 255>>,
          <<1, 0, 0, 0, 0, 0, 0, 128>>,
          <<2, 0, 195, 169, 5, 0, 0, 0, 0, 255>>}

\* ------------------------------------------------------------- writer calls

NoCall == [op |-> "new", val |-> <<>>]

FirstCall == [op |-> "new", arg |-> 0, kind |-> "none", val |-> <<>>, err |-> ""]

\* new PacketWriter(id)
NewWriter(id) ==
    /\ packetId = id
    /\ buffer = NewWriterBuffer(id)
    /\ written = <<>>
    /\ out = NoCall
    /\ outAt = -1

\* A write: the buffer it leaves, logged as a field of kind and value.
Write(kind, val, buf) ==
    /\ stage = "writer"
    /\ buffer' = buf
    /\ written' = Append(written, [kind |-> kind, val |-> val])
    /\ out' = [op |-> "write", val |-> <<>>]
    /\ UNCHANGED <<stage, caller, packetId, outAt, readerVars>>

WriteUInt8(v)   == Write("UInt8", v, writeUInt8(buffer, v))
WriteUInt16(v)  == Write("UInt16", v, writeUInt16(buffer, v))
WriteUInt32(v)  == Write("UInt32", v, writeUInt32(buffer, v))
WriteUInt64(v)  == Write("UInt64", v, writeUInt64(buffer, v))
WriteInt32(v)   == Write("Int32", v, writeInt32(buffer, v))
WriteInt64(v)   == Write("Int64", v, writeInt64(buffer, v))
WriteFloat32(v) == Write("Float32", v, writeFloat32(buffer, v))
WriteFloat64(v) == Write("Float64", v, writeFloat64(buffer, v))
WriteBool(v)    == Write("Bool", <<IF v THEN 1 ELSE 0>>, writeBool(buffer, v))
WriteString(v)  == Write("String", v, writeString(buffer, v))
WriteBytes(v)   == Write("Bytes", v, writeBytes(buffer, v))

\* Mutant: an output call empties the buffer.
Extract_Consuming(op, val) ==
    /\ stage = "writer"
    /\ out' = [op |-> op, val |-> val]
    /\ buffer' = <<>>
    /\ outAt' = IF outAt = -1 THEN Len(written) ELSE outAt
    /\ UNCHANGED <<stage, caller, packetId, written, readerVars>>

\* An output call: what it returns, and the writer it leaves.
Extract(op, val) ==
    /\ stage = "writer"
    /\ out' = [op |-> op, val |-> val]
    /\ outAt' = IF outAt = -1 THEN Len(written) ELSE outAt
    /\ UNCHANGED <<stage, caller, buffer, packetId, written, readerVars>>

GetBytes    == Extract("getBytes", getBytes(buffer))
GetData     == Extract("getData", getData(buffer))
GetPacketId == Extract("getPacketId", packetId)

\* ------------------------------------------------------------- reader calls

\* new PacketReader(view)
NewReader(view) ==
    /\ data = view
    /\ offset = 0
    /\ last = FirstCall
    /\ afterReset = FALSE
    /\ fresh = 0
    /\ freshLast = FirstCall
    /\ nread = 0

Outcome(op, arg, r) ==
    [op |-> op, arg |-> arg, kind |-> r.kind, val |-> r.val, err |-> r.err]

\* Whether the caller issues a read of this type (and length) next.
MayRead(type, arg) ==
    \/ caller = "any"
    \/ /\ caller = "mirror"
       /\ IF nread = 0 THEN type = "UInt16"
          ELSE /\ nread <= Len(written)
               /\ written[nread].kind = type
               /\ type = "Bytes" => arg = Len(written[nread].val)

\* A call on the reader with outcome r; rf is the outcome of the same call
\* on the reader constructed at the last reset().
Call(op, arg, r, rf) ==
    /\ stage = "reader"
    /\ offset' = r.offset
    /\ last' = Outcome(op, arg, r)
    /\ fresh' = rf.offset
    /\ freshLast' = Outcome(op, arg, rf)
    /\ UNCHANGED <<stage, caller, writerVars, data, afterReset>>

Read(type, arg, r, rf) ==
    /\ MayRead(type, arg)
    /\ Call("read" \o type, arg, r, rf)
    /\ nread' = IF caller = "mirror" THEN nread + 1 ELSE nread

ReadUInt8   == Read("UInt8", 0, readUInt8(data, offset), readUInt8(data, fresh))
ReadUInt16  == Read("UInt16", 0, readUInt16(data, offset), readUInt16(data, fresh))
ReadUInt32  == Read("UInt32", 0, readUInt32(data, offset), readUInt32(data, fresh))
ReadUInt64  == Read("UInt64", 0, readUInt64(data, offset), readUInt64(data, fresh))
ReadInt32   == Read("Int32", 0, readInt32(data, offset), readInt32(data, fresh))
ReadInt64   == Read("Int64", 0, readInt64(data, offset), readInt64(data, fresh))
ReadFloat32 == Read("Float32", 0, readFloat32(data, offset), readFloat32(data, fresh))
ReadFloat64 == Read("Float64", 0, readFloat64(data, offset), readFloat64(data, fresh))
ReadBool    == Read("Bool", 0, readBool(data, offset), readBool(data, fresh))
ReadString  == Read("String", 0, readString(data, offset), readString(data, fresh))

ReadBytes(length) ==
    Read("Bytes", length, readBytes(data, offset, length),
         readBytes(data, fresh, length))

\* A call that returns a value and leaves the cursor.
Query(op, kind, val, valf) ==
    /\ Call(op, 0, Returned(offset, kind, val), Returned(fresh, kind, valf))
    /\ UNCHANGED nread

IsComplete ==
    Query("isComplete", "boolean",
          <<IF isComplete(data, offset) THEN 1 ELSE 0>>,
          <<IF isComplete(data, fresh) THEN 1 ELSE 0>>)

Remaining ==
    Query("remaining", "int", <<remaining(data, offset)>>, <<remaining(data, fresh)>>)

GetOffset == Query("getOffset", "int", <<offset>>, <<fresh>>)

\* reset(): from here on the other reader is one constructed now.
Reset ==
    /\ stage = "reader"
    /\ caller = "any"
    /\ offset' = reset(offset)
    /\ last' = Outcome("reset", 0, Returned(0, "none", <<>>))
    /\ afterReset' = TRUE
    /\ fresh' = 0
    /\ freshLast' = Outcome("reset", 0, Returned(0, "none", <<>>))
    /\ UNCHANGED <<stage, caller, writerVars, data, nread>>

SetOffset(n) ==
    /\ caller = "any"
    /\ Call("setOffset", n, setOffset(data, offset, n), setOffset(data, fresh, n))
    /\ UNCHANGED nread

\* ----------------------------------------------------------- specifications

\* No PacketReader yet: the variables of one over no bytes.
NoReader == NewReader(FreshView(<<>>))

\* The caller hands the packet to a PacketReader: getData(), or getBytes()
\* without its header, as a copy (slice) or as a view (subarray, Buffer.slice).
Receive(view) ==
    /\ stage = "writer"
    /\ stage' = "reader"
    /\ data' = view
    /\ offset' = 0
    /\ last' = FirstCall
    /\ afterReset' = FALSE
    /\ fresh' = 0
    /\ freshLast' = FirstCall
    /\ nread' = 0
    /\ UNCHANGED <<caller, writerVars>>

Payloads(buf) ==
    {FreshView(getData(buf)),
     FreshView(SubSeq(getBytes(buf), 3, Len(getBytes(buf)))),
     View(getBytes(buf), 2, Len(getBytes(buf)) - 2)}

\* A packet written field by field, received, and read back in write order.
Init ==
    /\ stage = "writer"
    /\ caller = "mirror"
    /\ \E id \in PacketIds : NewWriter(id)
    /\ NoReader

Next ==
    \/ /\ Len(written) < MaxFields
       /\ \/ \E v \in U8s : WriteUInt8(v)
          \/ \E v \in U16s : WriteUInt16(v)
          \/ \E v \in U32s : WriteUInt32(v)
          \/ \E v \in U64s : WriteUInt64(v)
          \/ \E v \in I32s : WriteInt32(v)
          \/ \E v \in I64s : WriteInt64(v)
          \/ \E v \in Bools : WriteBool(v)
          \/ \E v \in Strs : WriteString(v)
          \/ \E v \in Spans : WriteBytes(v)
    \/ \E view \in Payloads(buffer) : Receive(view)
    \/ ReadUInt8 \/ ReadUInt16 \/ ReadUInt32 \/ ReadUInt64
    \/ ReadInt32 \/ ReadInt64 \/ ReadBool \/ ReadString
    \/ \E n \in 0..2 : ReadBytes(n)
    \/ IsComplete

Spec == Init /\ [][Next]_vars

\* A PacketWriter under any calls, numbers outside their type's domain too.
InitWriter ==
    /\ stage = "writer"
    /\ caller = "any"
    /\ \E id \in WideIds : NewWriter(id)
    /\ NoReader

NextWriter ==
    \/ /\ Len(written) < MaxWrites
       /\ \/ \E v \in WideU8s : WriteUInt8(v)
          \/ \E v \in WideU16s : WriteUInt16(v)
          \/ \E v \in WideU32s : WriteUInt32(v)
          \/ \E v \in WideU64s : WriteUInt64(v)
          \/ \E v \in WideI32s : WriteInt32(v)
          \/ \E v \in WideI64s : WriteInt64(v)
          \/ \E v \in F32s : WriteFloat32(v)
          \/ \E v \in F64s : WriteFloat64(v)
          \/ \E v \in WideBools : WriteBool(v)
          \/ \E v \in WideStrs : WriteString(v)
          \/ \E v \in WideSpans : WriteBytes(v)
    \/ GetBytes \/ GetData \/ GetPacketId

SpecWriter == InitWriter /\ [][NextWriter]_vars

\* A PacketWriter whose buffer grows past what the size header can count.
InitFrame ==
    /\ stage = "writer"
    /\ caller = "any"
    /\ NewWriter(NumOf(10001))
    /\ NoReader

NextFrame ==
    \/ /\ Len(written) < MaxFrameWrites
       /\ \/ \E v \in U8s : WriteUInt8(v)
          \/ \E v \in {NumOf(12345)} : WriteUInt32(v)
          \/ \E v \in {Str_test} : WriteString(v)
          \/ \E v \in Spans \cup {BigSpan, Tail(BigSpan)} :
                Len(buffer) + Len(v) <= MaxBuffer /\ WriteBytes(v)
    \/ GetBytes \/ GetData

SpecFrame == InitFrame /\ [][NextFrame]_vars

\* A PacketReader over any bytes, under any calls.
InitReader ==
    /\ stage = "reader"
    /\ caller = "any"
    /\ NewWriter(NumOf(0))
    /\ \E bytes \in DataSamples :
          \/ NewReader(FreshView(bytes))
          \/ NewReader(View(Header(Len(bytes)) \o bytes, 2, Len(bytes)))

NextReader ==
    \/ ReadUInt8 \/ ReadUInt16 \/ ReadUInt32 \/ ReadUInt64
    \/ ReadInt32 \/ ReadInt64 \/ ReadFloat32 \/ ReadFloat64
    \/ ReadBool \/ ReadString
    \/ \E n \in (-MaxUnder)..(data.length + 1) :
          offset + n >= -MaxUnder /\ ReadBytes(n)
    \/ IsComplete \/ Remaining \/ GetOffset
    \/ Reset
    \/ \E n \in -1..(data.length + 1) : SetOffset(n)

SpecReader == InitReader /\ [][NextReader]_vars

\* The proper prefixes of a packet's payload: the first k bytes as a copy
\* (slice) or as a view on the framed packet (subarray).
Prefixes(buf) ==
    UNION {{FreshView(SubSeq(getData(buf), 1, k)), View(getBytes(buf), 2, k)} :
           k \in 0..(Len(buf) - 1)}

\* A packet written field by field, cut short, and read back in write order
\* until a read throws.
NextCut ==
    \/ /\ Len(written) < MaxCutFields
       /\ \/ \E v \in U8s : WriteUInt8(v)
          \/ \E v \in U16s : WriteUInt16(v)
          \/ \E v \in U32s : WriteUInt32(v)
          \/ \E v \in U64s : WriteUInt64(v)
          \/ \E v \in I32s : WriteInt32(v)
          \/ \E v \in I64s : WriteInt64(v)
          \/ \E v \in Bools : WriteBool(v)
          \/ \E v \in Strs : WriteString(v)
          \/ \E v \in Spans : WriteBytes(v)
    \/ \E view \in Prefixes(buffer) : Receive(view)
    \/ /\ last.err = ""
       /\ \/ ReadUInt8 \/ ReadUInt16 \/ ReadUInt32 \/ ReadUInt64
          \/ ReadInt32 \/ ReadInt64 \/ ReadBool \/ ReadString
          \/ \E n \in 0..2 : ReadBytes(n)

SpecCut == Init /\ [][NextCut]_vars

\* A packet written field by field, received, and read by fixed-width reads
\* of any type in any order.
NextMixed ==
    \/ /\ Len(written) < MaxMixedFields
       /\ \/ \E v \in U8s : WriteUInt8(v)
          \/ \E v \in U16s : WriteUInt16(v)
          \/ \E v \in U32s : WriteUInt32(v)
          \/ \E v \in U64s : WriteUInt64(v)
          \/ \E v \in I32s : WriteInt32(v)
          \/ \E v \in I64s : WriteInt64(v)
          \/ \E v \in WideBools : WriteBool(v)
          \/ \E v \in Strs : WriteString(v)
          \/ \E v \in Spans : WriteBytes(v)
    \/ \E view \in Payloads(buffer) : Receive(view)
    \/ ReadUInt8 \/ ReadUInt16 \/ ReadUInt32 \/ ReadUInt64
    \/ ReadInt32 \/ ReadInt64 \/ ReadBool

SpecMixed == InitFrame /\ [][NextMixed]_vars

\* Integers of any sign and size written by writeUInt32, received and read
\* back by readUInt32.
NextMask ==
    \/ /\ Len(written) < MaxMaskWrites
       /\ \E v \in MaskU32s : WriteUInt32(v)
    \/ \E view \in Payloads(buffer) : Receive(view)
    \/ ReadUInt16
    \/ ReadUInt32

SpecMask == Init /\ [][NextMask]_vars

\* A packet of fields of every kind, an empty string and an empty raw span
\* among them, received from getData() and read in write order, with
\* isComplete() and remaining() asked after any read.
NextSkip ==
    \/ /\ Len(written) < MaxSkipFields
       /\ \/ \E v \in U8s : WriteUInt8(v)
          \/ \E v \in U16s : WriteUInt16(v)
          \/ \E v \in U32s : WriteUInt32(v)
          \/ \E v \in U64s : WriteUInt64(v)
          \/ \E v \in I32s : WriteInt32(v)
          \/ \E v \in I64s : WriteInt64(v)
          \/ \E v \in F32s : WriteFloat32(v)
          \/ \E v \in F64s : WriteFloat64(v)
          \/ \E v \in Bools : WriteBool(v)
          \/ \E v \in WideStrs : WriteString(v)
          \/ \E v \in WideSpans : WriteBytes(v)
    \/ Receive(FreshView(getData(buffer)))
    \/ ReadUInt8 \/ ReadUInt16 \/ ReadUInt32 \/ ReadUInt64
    \/ ReadInt32 \/ ReadInt64 \/ ReadFloat32 \/ ReadFloat64
    \/ ReadBool \/ ReadString
    \/ \E n \in 0..2 : ReadBytes(n)
    \/ IsComplete \/ Remaining

SpecSkip == Init /\ [][NextSkip]_vars

\* ------------------------------------------------------------------- claims

ReadOps ==
    {"readUInt8", "readUInt16", "readUInt32", "readUInt64", "readInt32",
     "readInt64", "readFloat32", "readFloat64", "readBool", "readString",
     "readBytes"}

OutOfData ==
    {NotEnough(t) : t \in {"UInt8", "UInt16", "UInt32", "UInt64", "Int32",
                           "Int64", "Float32", "Float64", "string", "bytes"}}

\* Two bytes decoded as a little-endian unsigned 16-bit integer.
LE16(b0, b1) == b0 + 256 * b1

\* What the k-th read of a mirroring caller is to return: the packet
\* identifier, then the fields in the order written.
Expected(k) == IF k = 1 THEN packetId ELSE written[k - 1].val

\* C1: a packet of fields in their type's domain, read back from getData()
\* (or getBytes() without its first 2 bytes) by readUInt16 and then the
\* matching read for each field in write order, gives back the packet
\* identifier and each written value, raises no error, and ends complete.
C1_RoundTrip ==
    (stage = "reader" /\ caller = "mirror" /\ nread >= 1) =>
        /\ last.op \in ReadOps => (last.err = "" /\ last.val = Expected(nread))
        /\ nread = Len(written) + 1 => isComplete(data, offset)

\* C2: a read that raises an out-of-data error leaves the cursor where it
\* was before the call.
C2_FailedReadKeepsOffset ==
    [][(last'.op \in ReadOps /\ last'.err \in OutOfData) => offset' = offset]_vars

\* C3: the cursor stays within 0..data.length under any reads (readBytes with
\* any integer length), reset() and setOffset(n), and no read returns
\* anything from outside the data.
C3_CursorInBounds ==
    stage = "reader" =>
        /\ 0 <= offset
        /\ offset <= data.length
        /\ last.kind # "undefined"

\* C4 as claimed: getBytes() is 2 bytes longer than getData(), carries
\* getData() from byte 2 on, and its first 2 bytes decode to exactly the
\* length of getData().
C4_FrameExact ==
    stage = "writer" =>
        LET framed == getBytes(buffer) IN
        /\ Len(framed) = 2 + Len(getData(buffer))
        /\ SubSeq(framed, 3, Len(framed)) = getData(buffer)
        /\ LE16(framed[1], framed[2]) = Len(getData(buffer))

\* C4, amended: getBytes() is 2 bytes longer than getData(), carries
\* getData() from byte 2 on, and its first 2 bytes decode to the length of
\* getData() modulo 65536, which is that length when it is at most 65535.
C4_FrameMod ==
    stage = "writer" =>
        LET framed == getBytes(buffer) IN
        /\ Len(framed) = 2 + Len(getData(buffer))
        /\ SubSeq(framed, 3, Len(framed)) = getData(buffer)
        /\ LE16(framed[1], framed[2]) = Len(getData(buffer)) % 65536
        /\ Len(getData(buffer)) <= 65535 =>
              LE16(framed[1], framed[2]) = Len(getData(buffer))
        /\ out.op = "getBytes" => out.val = framed

\* Writes left a buffer longer than the header can count.
C4_Witness ==
    stage = "writer" /\ out.op = "write" /\ Len(buffer) > 65535

Scenario5 ==
    <<[kind |-> "String", val |-> Str_Hello],
      [kind |-> "UInt32", val |-> NumOf(12345)],
      [kind |-> "Bool", val |-> <<1>>]>>

Bytes5 == <<17, 39, 5, 0, 72, 101, 108, 108, 111, 57, 48, 0, 0, 1>>

\* C5: packet 10001 with "Hello", 12345 and true is the bytes
\* 11 27 05 00 48 65 6C 6C 6F 39 30 00 00 01, framed with 0E 00 in front, and
\* reads back as 10001, "Hello", 12345, true, leaving the reader complete.
C5_Scenario ==
    (packetId = NumOf(10001) /\ written = Scenario5) =>
        /\ getData(buffer) = Bytes5
        /\ getBytes(buffer) = <<14, 0>> \o Bytes5
        /\ stage = "reader" =>
              /\ BytesOf(data) = Bytes5
              /\ last.op \in ReadOps =>
                    /\ last.err = ""
                    /\ nread = 1 => last.op = "readUInt16" /\ last.val = NumOf(10001)
                    /\ nread = 2 => last.op = "readString" /\ last.val = Str_Hello
                    /\ nread = 3 => last.op = "readUInt32" /\ last.val = NumOf(12345)
                    /\ nread = 4 => last.op = "readBool" /\ last.val = <<1>>
              /\ nread = 4 => isComplete(data, offset)
              /\ (nread = 4 /\ last.op = "isComplete") => last.val = <<1>>

\* The scenario's four reads were made and isComplete() was called.
C5_Witness ==
    /\ stage = "reader"
    /\ packetId = NumOf(10001)
    /\ written = Scenario5
    /\ nread = 4
    /\ last.op = "isComplete"

Scenario6 == <<[kind |-> "String", val |-> Str_test]>>

C7_SetOffset ==
    [][last'.op = "setOffset" =>
          IF 0 <= last'.arg /\ last'.arg <= data.length
          THEN /\ last'.err = ""
               /\ offset' = last'.arg
               /\ last'.arg = data.length => isComplete(data', offset')
          ELSE /\ last'.err = "PacketReader: Invalid offset"
               /\ offset' = offset
               /\ data' = data]_vars

\* setOffset was refused on a reader whose cursor had moved.
C7_Witness ==
    last.op = "setOffset" /\ last.err # "" /\ offset > 0

ExtractOps == {"getBytes", "getData", "getPacketId"}

\* The write a logged field stands for.
ApplyWrite(buf, f) ==
    CASE f.kind = "UInt8"   -> writeUInt8(buf, f.val)
      [] f.kind = "UInt16"  -> writeUInt16(buf, f.val)
      [] f.kind = "UInt32"  -> writeUInt32(buf, f.val)
      [] f.kind = "UInt64"  -> writeUInt64(buf, f.val)
      [] f.kind = "Int32"   -> writeInt32(buf, f.val)
      [] f.kind = "Int64"   -> writeInt64(buf, f.val)
      [] f.kind = "Float32" -> writeFloat32(buf, f.val)
      [] f.kind = "Float64" -> writeFloat64(buf, f.val)
      [] f.kind = "Bool"    -> writeBool(buf, f.val = <<1>>)
      [] f.kind = "String"  -> writeString(buf, f.val)
      [] f.kind = "Bytes"   -> writeBytes(buf, f.val)

\* The buffer of a writer given the writes fs and no other call.
RECURSIVE Replay(_, _)
Replay(buf, fs) ==
    IF fs = <<>> THEN buf ELSE Replay(ApplyWrite(buf, Head(fs)), Tail(fs))

\* C8: getBytes(), getData() and getPacketId() leave buffer and packetId as
\* they were; what a call returned is what the same call returns again until
\* the next write; and the buffer is the one the writes alone produce,
\* whatever output calls came between them.
C8_ExtractionPure ==
    /\ [][out'.op \in ExtractOps => (buffer' = buffer /\ packetId' = packetId)]_vars
    /\ [](stage = "writer" =>
            /\ out.op = "getBytes" => out.val = getBytes(buffer)
            /\ out.op = "getData" => out.val = getData(buffer)
            /\ out.op = "getPacketId" => out.val = packetId
            /\ buffer = Replay(NewWriterBuffer(packetId), written))

\* A write was made after an output call, and getBytes() called again.
C8_Witness ==
    /\ stage = "writer"
    /\ out.op = "getBytes"
    /\ outAt >= 0
    /\ outAt < Len(written)
    /\ Len(buffer) > 4

\* C9: remaining() is data.length - offset and isComplete() is true exactly
\* when offset = data.length (remaining() = 0), so true once reads have
\* used up the data and false with remaining() = 1 when one byte is left;
\* neither call changes offset or data.
C9_Completion ==
    /\ [][last'.op = "remaining" =>
            /\ last'.val = <<data.length - offset>>
            /\ offset' = offset /\ data' = data]_vars
    /\ [][last'.op = "isComplete" =>
            /\ last'.val = <<IF offset = data.length THEN 1 ELSE 0>>
            /\ offset' = offset /\ data' = data]_vars
    /\ [](stage = "reader" =>
            /\ (last.op = "remaining" /\ last.val = <<1>>) => ~isComplete(data, offset)
            /\ (last.op = "isComplete" /\ last.val = <<1>>) => remaining(data, offset) = 0
            /\ (last.op = "remaining" /\ last.val = <<0>>) => isComplete(data, offset))

\* isComplete() returned true after reads had used up a non-empty array.
C9_Witness ==
    /\ stage = "reader"
    /\ last.op = "isComplete"
    /\ last.val = <<1>>
    /\ data.length > 0

\* C10: no call on the reader changes the bytes; reset() puts the cursor at
\* 0; and from a reset() on, every call returns the same value, raises the
\* same error and leaves the same cursor as on a reader newly constructed
\* over the same bytes.
C10_ResetRereads ==
    /\ [][stage = "reader" => data' = data]_vars
    /\ [][last'.op = "reset" => offset' = 0]_vars
    /\ [](afterReset => (offset = fresh /\ last = freshLast))

\* After reads and a reset(), a read succeeded again.
C10_Witness ==
    /\ afterReset
    /\ last.op = "readUInt16"
    /\ last.err = ""
    /\ offset = 2

\* Where the field the k-th mirrored read asks for ends in the payload.
FieldEnd(k) == Len(Replay(NewWriterBuffer(packetId), SubSeq(written, 1, k - 1)))

\* C11: on a proper prefix of a packet, read in write order, a field that
\* lies within the prefix is returned as written, and the first field that
\* extends past the prefix raises an out-of-data error; no read returns a
\* value other than the one written.
C11_Truncated ==
    (/\ stage = "reader" /\ caller = "mirror"
     /\ data.length < Len(buffer) /\ last.op \in ReadOps) =>
        IF FieldEnd(nread) <= data.length
        THEN last.err = "" /\ last.val = Expected(nread)
        ELSE last.err \in OutOfData

\* The type a read asks for, as an out-of-data error names it.
TypeOf(op) ==
    CASE op = "readUInt8"   -> "UInt8"
      [] op = "readUInt16"  -> "UInt16"
      [] op = "readUInt32"  -> "UInt32"
      [] op = "readUInt64"  -> "UInt64"
      [] op = "readInt32"   -> "Int32"
      [] op = "readInt64"   -> "Int64"
      [] op = "readFloat32" -> "Float32"
      [] op = "readFloat64" -> "Float64"
      [] op = "readBool"    -> "Bool"
      [] op = "readString"  -> "string"
      [] op = "readBytes"   -> "bytes"

\* C12: an out-of-data error names the type of the read the caller asked
\* for: readBool on exhausted data names the boolean read, and readString
\* with fewer than 2 bytes left for its length prefix names the string read.
C12_ErrorNamesType ==
    (stage = "reader" /\ last.op \in ReadOps /\ last.err \in OutOfData) =>
        last.err = NotEnough(TypeOf(last.op))

\* C13: a buffer of L > 65535 bytes makes getBytes() return, without an
\* error, 2 + L bytes with the whole buffer after a header that decodes to
\* L mod 65536 and not to L; a buffer of L <= 65535 bytes gets a header that
\* decodes to L.
C13_SilentWrap ==
    stage = "writer" =>
        LET L      == Len(buffer)
            packet == getBytes(buffer)
            size   == LE16(packet[1], packet[2])
        IN  /\ L > 65535 =>
                  /\ Len(packet) = 2 + L
                  /\ SubSeq(packet, 3, 2 + L) = buffer
                  /\ size = L % 65536
                  /\ size # L
            /\ L <= 65535 => size = L
            /\ out.op = "getBytes" => out.val = packet

\* The buffer is too long for the header, and the size in the packet that
\* getBytes() makes of it falls short of the buffer's length.
C13_Witness ==
    /\ stage = "writer"
    /\ written # <<>>
    /\ Len(getBytes(buffer)) > 65537
    /\ LE16(getBytes(buffer)[1], getBytes(buffer)[2]) < Len(buffer)

FixedOps ==
    {"readUInt8", "readUInt16", "readUInt32", "readUInt64", "readInt32",
     "readInt64", "readBool"}

\* The bytes a fixed-width read takes.
Width(op) ==
    CASE op \in {"readUInt8", "readBool"}    -> 1
      [] op = "readUInt16"                   -> 2
      [] op \in {"readUInt32", "readInt32"}  -> 4
      [] op \in {"readUInt64", "readInt64"}  -> 8

\* Bytes b, least significant first and padded with zeros, as a Num.
LEValue(b) ==
    LET at(i) == IF i <= Len(b) THEN b[i] ELSE 0
    IN  Num(at(1) + 256 * at(2), at(3) + 256 * at(4),
            at(5) + 256 * at(6), at(7) + 256 * at(8))

\* Bytes b read as a value of the type of op.
Reinterpret(op, b) ==
    CASE op = "readBool"  -> <<IF b[1] = 0 THEN 0 ELSE 1>>
      [] op = "readInt32" -> ToInt32(LEValue(b))
      [] op = "readInt64" -> ToBigInt64(LEValue(b))
      [] OTHER            -> LEValue(b)

\* C14: on an encoded payload read by fixed-width reads alone, of whatever
\* types in whatever order, a read succeeds exactly when its width fits in
\* the bytes left after the cursor; it then moves the cursor by its width
\* and returns the little-endian value of the bytes under the cursor, and
\* otherwise raises an out-of-data error. So reads whose widths sum to at
\* most the bytes remaining raise no error and advance the cursor by the sum.
C14_OrderInsensitive ==
    /\ [][last'.op \in FixedOps =>
            LET w == Width(last'.op) IN
            IF offset + w <= data.length
            THEN /\ last'.err = ""
                 /\ offset' = offset + w
                 /\ last'.val = Reinterpret(last'.op,
                                    SubSeq(BytesOf(data), offset + 1, offset + w))
            ELSE /\ last'.err \in OutOfData
                 /\ offset' = offset]_vars
    /\ [](stage = "reader" => (0 <= offset /\ offset <= data.length))

\* A packet holding one 8-byte unsigned field was read to its end by reads
\* of other widths, the last of them a signed 32-bit read.
C14_Witness ==
    /\ stage = "reader"
    /\ Len(written) = 1
    /\ written[1].kind = "UInt64"
    /\ last.op = "readInt32"
    /\ last.err = ""
    /\ last.val = MinusOne
    /\ offset = 10

\* The packet identifier and the first fields of a packet of at least one
\* field were read in write order, and at least one field was left unread.
UnderRead ==
    /\ stage = "reader" /\ caller = "mirror"
    /\ nread >= 1 /\ nread <= Len(written)
    /\ last.err = ""

\* What isComplete() and remaining() say, when stated by cursor and by call.
SaysIncomplete ==
    /\ ~isComplete(data, offset)
    /\ remaining(data, offset) > 0
    /\ last.op = "isComplete" => last.val = <<0>>
    /\ last.op = "remaining" => last.val[1] > 0

\* Whether field k of the packet is a raw span of no bytes.
EmptySpan(k) == written[k].kind = "Bytes" /\ written[k].val = <<>>

\* C15 as claimed: a reader that read the packet identifier and only the
\* first m < n fields of a packet is not complete and has bytes remaining,
\* whatever the kinds of the fields, an empty string and a zero-length raw
\* span included.
C15_UnderReadAny == UnderRead => SaysIncomplete

\* C15, amended: a reader that read the packet identifier and only the first
\* m < n fields is not complete and has bytes remaining when some unread
\* field is anything but a zero-length raw span (an empty string counts: it
\* is 2 bytes); when every unread field is a zero-length raw span the reader
\* is complete and nothing remains.
C15_UnderReadBytes ==
    UnderRead =>
        IF \E k \in nread..Len(written) : ~EmptySpan(k)
        THEN SaysIncomplete
        ELSE /\ isComplete(data, offset)
             /\ remaining(data, offset) = 0
             /\ last.op = "isComplete" => last.val = <<1>>
             /\ last.op = "remaining" => last.val = <<0>>

\* With only an empty string left unread, isComplete() returned false.
C15_Witness ==
    /\ UnderRead
    /\ nread = Len(written)
    /\ written[nread].kind = "String"
    /\ written[nread].val = <<>>
    /\ last.op = "isComplete"
    /\ last.val = <<0>>

\* The bytes a field of each kind is to take in the buffer.
FieldWidth(f) ==
    CASE f.kind \in {"UInt8", "Bool"}               -> 1
      [] f.kind = "UInt16"                          -> 2
      [] f.kind \in {"UInt32", "Int32", "Float32"}  -> 4
      [] f.kind \in {"UInt64", "Int64", "Float64"}  -> 8
      [] f.kind = "String"                          -> 2 + Len(TextEncode(f.val))
      [] f.kind = "Bytes"                           -> Len(f.val)

\* The packet identifier modulo 256, and its quotient by 256 modulo 256.
IdBytes(id) == <<id[1] % 256, (id[1] \div 256) % 256>>

\* C16: after construction getData() is the 2 bytes of the packet
\* identifier (modulo 256, and divided by 256 modulo 256); a write keeps
\* every byte of the buffer where it was and appends as many bytes as its
\* kind takes; so getData() always begins with the identifier's bytes, and
\* getPacketId() returns the constructor's argument.
C16_AppendOnly ==
    /\ [](stage = "writer" =>
            /\ written = <<>> => getData(buffer) = IdBytes(packetId)
            /\ SubSeq(getData(buffer), 1, 2) = IdBytes(packetId)
            /\ out.op = "getData" => SubSeq(out.val, 1, 2) = IdBytes(packetId)
            /\ out.op = "getPacketId" => out.val = packetId)
    /\ [][written' # written =>
            /\ SubSeq(buffer', 1, Len(buffer)) = buffer
            /\ Len(buffer') = Len(buffer) + FieldWidth(written'[Len(written')])]_vars
    /\ [][packetId' = packetId]_vars

\* On a writer made with an identifier above 65535, after a write of a
\* number and one of a string of multi-byte characters, getPacketId() was
\* called.
C16_Witness ==
    /\ stage = "writer"
    /\ packetId = NumOf(65537)
    /\ Len(written) = 2
    /\ written[1].kind = "UInt32"
    /\ written[2] = [kind |-> "String", val |-> Str_Multi]
    /\ out.op = "getPacketId"

\* An integer modulo 2^32.
Mod32(v) == Num(v[1], v[2], 0, 0)

\* The 4 bytes of a number in 0..2^32-1, least significant first.
LE32(v) == <<v[1] % 256, v[1] \div 256, v[2] % 256, v[2] \div 256>>

\* C17: writeUInt32(v), for v negative or above 2^32 - 1 as well, appends
\* the 4 little-endian bytes of v mod 2^32, and the readUInt32 that follows
\* raises no error and returns v mod 2^32, a number in 0..2^32 - 1: a value
\* with bit 31 set comes back non-negative.
C17_Masked ==
    /\ [][(written' # written /\ written'[Len(written')].kind = "UInt32") =>
            buffer' = buffer \o LE32(Mod32(written'[Len(written')].val))]_vars
    /\ [](stage = "reader" /\ last.op = "readUInt32" =>
            /\ last.err = ""
            /\ last.val = Mod32(Expected(nread))
            /\ last.val[1] \in 0..65535 /\ last.val[2] \in 0..65535
            /\ last.val[3] = 0 /\ last.val[4] = 0)

\* -1 was written by writeUInt32 and read back as 4294967295.
C17_Witness ==
    /\ stage = "reader"
    /\ last.op = "readUInt32"
    /\ Expected(nread) = MinusOne
    /\ last.val = U32Max

\* The bytes a read is to consume at cursor off: its width, 2 + n for
\* readString with length prefix n, the length asked of readBytes.
Consumed(op, arg, d, off) ==
    CASE op \in FixedOps                       -> Width(op)
      [] op = "readFloat32"                    -> 4
      [] op = "readFloat64"                    -> 8
      [] op = "readString"                     ->
            2 + LE16(Int32Of(At(d, off)), Int32Of(At(d, off + 1)))
      [] op = "readBytes"                      -> arg

\* C18: a read that succeeds moves the cursor forward by the bytes it
\* consumed, and readBytes returns the bytes between the old and the new
\* cursor; so no read, readBytes with whatever length included, ever moves
\* the cursor back: only reset() and setOffset() do.
C18_CursorForward ==
    [][last'.op \in ReadOps =>
          /\ offset' >= offset
          /\ last'.err = "" =>
                /\ offset' = offset + Consumed(last'.op, last'.arg, data, offset)
                /\ last'.op = "readBytes" =>
                      last'.val = SubSeq(BytesOf(data), offset + 1, offset')]_vars

====
